---- MODULE Spec2Model ----
(***************************************************************************)
(* Quiz attempt workflow of fastapi-quiz-app: start, answer, complete and  *)
(* get-results requests over the Attempt table, the Redis answer cache and *)
(* the Redis result archive, with the wall clock and update_quiz; the      *)
(* authoring of questions and answers with the fully_created status tasks; *)
(* and the score tasks scheduled by complete.                              *)
(* Requests are served one at a time (each handler is one atomic step);    *)
(* background tasks run as steps of their own after the response.          *)
(***************************************************************************)
EXTENDS Integers, Naturals, Sequences, FiniteSets, TLC

(***************************************************************************)
(* Bounds of the model                                                     *)
(***************************************************************************)
\* number of clock advances explored
MaxTicks == 4
\* highest value the attempts.id sequence may reach
MaxAttemptId == 11
\* number of attempt rows other users insert between two requests shown here
OtherBurst == 8
\* highest value the questions.id sequence may reach
MaxQuestionId == 4
\* highest value the answers.id sequence may reach
MaxAnswerId == 7
\* number of requests whose background tasks may be waiting at one time
MaxPending == 1
\* highest value the company_request.id sequence may reach
MaxRequestId == 4

(***************************************************************************)
(* Program constants                                                       *)
(***************************************************************************)
\* datetime.time() keeps only the time of day: seconds in a day
SecondsPerDay == 86400
\* strftime("%M") is the minute of the hour
MinutesPerHour == 60
\* timedelta(minutes=...) and "%S"
SecondsPerMinute == 60
\* save_answer: ex = quiz_completion_time * 60 + 120
GraceSeconds == 120
\* calculate_attempt_result: ex = 48 * 60 * 60
ArchiveTtl == 48 * 60 * 60
\* user_has_attempts: ">= 2"
AttemptQuota == 2

\* SQL NULL / Python None
None == -1

(***************************************************************************)
(* Fixture data: users, and the quiz catalog the scenarios start from       *)
(***************************************************************************)
Users == {1, 2}
\* users holding Admin/Owner role in the company owning the quizzes
Admins == {1}
\* quiz ids a request may name; 3 does not exist
QuizIds == {1, 2, 3}
Quizzes == {1, 2}
\* companies owning the quizzes
Companies == {1, 2}
\* ids a request may name that do not exist
MissingQuestion == 9
MissingAnswer == 9
\* the Quiz rows at the start: quiz 1 is authored completely, quiz 2 is not;
\* quiz q belongs to company q
QuizFixture == [q \in Quizzes |-> [fully_created |-> q = 1, company_id |-> q]]
\* the Question rows at the start: questions 1 and 2 of quiz 1, 3 of quiz 2
QuestionFixture ==
  [qn \in {1, 2, 3} |-> [quiz_id |-> IF qn = 3 THEN 2 ELSE 1, fully_created |-> TRUE]]
\* the Answer rows at the start: two per question, answers 1, 4, 5 correct
AnswerFixture ==
  [an \in {1, 2, 3, 4, 5, 6} |->
     [question_id |-> (an + 1) \div 2, is_correct |-> an \in {1, 4, 5}]]
\* a catalog in which both quizzes are authored completely: questions 3 and
\* 4 of quiz 2, answers 5..8, answers 5 and 7 correct
QuizFixtureScores == [q \in Quizzes |-> [fully_created |-> TRUE, company_id |-> q]]
QuestionFixtureScores ==
  [qn \in {1, 2, 3, 4} |->
     [quiz_id |-> IF qn \in {3, 4} THEN 2 ELSE 1, fully_created |-> TRUE]]
AnswerFixtureScores ==
  [an \in {1, 2, 3, 4, 5, 6, 7, 8} |->
     [question_id |-> (an + 1) \div 2, is_correct |-> an \in {1, 4, 5, 7}]]
\* completion_time values used for quizzes (minutes)
CompletionTimes == {1, 2}
\* clock advances: one minute, and one minute short of a day
Steps == {60, 86340}
\* (question_id, answer_id) pairs of answer requests in the scoring
\* specification: right and wrong answers, a question of another quiz, an
\* answer of another question, unknown ids
ScoringInputs ==
  {<<1, 1>>, <<1, 2>>, <<2, 4>>, <<3, 5>>, <<1, 3>>,
   <<MissingQuestion, 1>>, <<1, MissingAnswer>>}
\* the pairs used in the lifecycle specification
LifecycleInputs == {<<1, 1>>, <<3, 5>>}
\* users who take quizzes in the lifecycle specification
Starters == {1}
\* the requests the event loop may hold suspended at one time
Slots == {1, 2}
\* the answers of question 1 sent while requests overlap
ConcurrentInputs == {<<1, 1>>, <<1, 2>>}

VARIABLES
  now,            \* datetime.utcnow(), in seconds
  ticks,          \* number of clock advances so far
  completion_time,\* Quiz.completion_time per quiz
  quiz_rows,      \* Quiz table: id -> fully_created, company_id
  question_rows,  \* Question table: id -> quiz_id, fully_created
  answer_rows,    \* Answer table: id -> question_id, is_correct
  question_seq,   \* last value handed out by the questions.id sequence
  answer_seq,     \* last value handed out by the answers.id sequence
  background_tasks, \* BackgroundTasks of answered requests: task lists not yet finished
  overall_avg_score, \* User.overall_avg_score per user
  average_score,  \* CompanyUser.average_score per (user, company)
  company_user,   \* CompanyUser table: (user_id, company_id) -> role
  company_request,\* CompanyRequest table: id -> sender_id, receiver_id, company_id
  company_request_seq, \* last value handed out by the company_requests.id sequence
  attempts,       \* Attempt table: id -> row
  attempt_seq,    \* last value handed out by the attempts.id sequence
  answer_cache,   \* Redis keys "{attempt}:{quiz}:{question}" -> value, expiry
  result_archive, \* Redis keys "attempt-answers:{attempt}" -> document, expiry
  scored,         \* history: attempts on which complete has succeeded
  touched,        \* history: attempts whose quiz completion_time changed since creation
  expired,        \* history: keys of accepted answers that Redis has dropped and no answer rewrote
  requests        \* the requests being served at a suspension point: slot -> handler position

\* the attempt workflow: clock, attempts, Redis and the history variables
workflow == <<now, ticks, completion_time, attempts, attempt_seq, answer_cache,
              result_archive, scored, touched, expired>>
\* the authored catalog
catalog == <<quiz_rows, question_rows, answer_rows, question_seq, answer_seq>>
\* the cached aggregates
scores == <<overall_avg_score, average_score>>
\* company members and the pending invitations and membership requests
membership == <<company_user, company_request, company_request_seq>>

vars == <<now, ticks, completion_time, attempts, attempt_seq, answer_cache,
          result_archive, scored, touched, expired, catalog, background_tasks, scores, membership, requests>>

\* ids of the Question rows
Questions == DOMAIN question_rows
\* ids of the Answer rows
Answers == DOMAIN answer_rows
\* Question.quiz_id
QuestionQuiz(qn) == question_rows[qn].quiz_id
\* Answer.question_id
AnswerQuestion(an) == answer_rows[an].question_id
\* Answer.is_correct
IsCorrect(an) == answer_rows[an].is_correct
\* Quiz.fully_created
FullyCreated(q) == quiz_rows[q].fully_created
\* Quiz.questions
QuizQuestions(q) == {qn \in Questions : QuestionQuiz(qn) = q}
\* Quiz.questions_count
questions_count(q) == Cardinality(QuizQuestions(q))

\* an HTTP response: status code and what the detail or body says
Response(status, detail) == [status |-> status, detail |-> detail]

(***************************************************************************)
(* Pure helpers                                                            *)
(***************************************************************************)
\* datetime.time(): the time of day of a timestamp
TimeOfDay(t) == t % SecondsPerDay

\* utils.time_is_between: compares times of day only
time_is_between(start_time, time_to_check, end_time) ==
  /\ TimeOfDay(start_time) <= TimeOfDay(time_to_check)
  /\ TimeOfDay(time_to_check) <= TimeOfDay(end_time)

\* f"{quiz_completion_time}:00", kept as the two numbers the text spells
Placeholder(ct) == [mm |-> ct, ss |-> 0]

\* (datetime(2010, 1, 1) + spent).strftime("%M:%S"): minute of the hour and second
FormatSpent(spent) ==
  [mm |-> (spent \div SecondsPerMinute) % MinutesPerHour, ss |-> spent % SecondsPerMinute]

\* int(attempt.spent_time.split(":")[0])
SpentMinutes(spent_time) == spent_time.mm

\* utils.attempt_is_completed, for a row and the current quiz configuration
attempt_is_completed(attempt, time_to_check, ct) ==
  IF ~time_is_between(attempt.start_time, time_to_check, attempt.end_time)
  THEN TRUE
  ELSE IF SpentMinutes(attempt.spent_time) # ct[attempt.quiz_id]
  THEN TRUE
  ELSE FALSE

RECURSIVE Sum(_, _)
RECURSIVE GCD(_, _)
\* the decimal text of a is a prefix of the decimal text of b
RECURSIVE IsDecimalPrefix(_, _)
IsDecimalPrefix(a, b) ==
  IF a = b THEN TRUE
  ELSE IF b < 10 THEN FALSE
  ELSE IsDecimalPrefix(a, b \div 10)

\* Redis: a key set with ex=... is gone once its expiry time is reached
Live(store, t) == {k \in DOMAIN store : t < store[k].expire_at}

\* redis.keys(f"{attempt.id}*") over keys "{attempt}:{quiz}:{question}"
KeysMatching(attempt_id, t) ==
  {k \in Live(answer_cache, t) : IsDecimalPrefix(attempt_id, k[1])}

\* rows of (user, quiz): select(Attempt).where(user_id == .. & quiz_id == ..)
AttemptsOf(user_id, quiz_id) ==
  {a \in DOMAIN attempts : attempts[a].user_id = user_id /\ attempts[a].quiz_id = quiz_id}

\* the rows returned by select(func.count(Attempt.id)): one row holding the count
UsedAttemptsRows(user_id, quiz_id) == <<Cardinality(AttemptsOf(user_id, quiz_id))>>

\* AttemptRepository.user_has_attempts: len of the result rows against the quota
user_has_attempts(quiz_id, user_id) ==
  IF Len(UsedAttemptsRows(user_id, quiz_id)) >= AttemptQuota THEN FALSE ELSE TRUE

\* has_started_attempt reading the first row instead of scalar_one_or_none
has_started_attempt_first(user_id, quiz_id) ==
  LET rows == AttemptsOf(user_id, quiz_id) IN
  IF rows = {} THEN "false"
  ELSE LET a == CHOOSE x \in rows : TRUE IN
       IF ~attempt_is_completed(attempts[a], now, completion_time) THEN "true" ELSE "false"

\* AttemptRepository.has_started_attempt: "raise" when scalar_one_or_none meets
\* more than one row (MultipleResultsFound), otherwise "true"/"false"
has_started_attempt(user_id, quiz_id) ==
  LET rows == AttemptsOf(user_id, quiz_id) IN
  IF Cardinality(rows) > 1 THEN "raise"
  ELSE IF rows = {} THEN "false"
  ELSE LET a == CHOOSE x \in rows : TRUE IN
       IF ~attempt_is_completed(attempts[a], now, completion_time) THEN "true" ELSE "false"

\* function update / extension
Put(f, k, v) == [x \in DOMAIN f \cup {k} |-> IF x = k THEN v ELSE f[x]]

(***************************************************************************)
(* Initial state: empty tables and stores, the fixture quizzes             *)
(***************************************************************************)
\* a slot of the event loop that holds no request
Idle == [op |-> "idle", user |-> None, id |-> None, question_id |-> None,
         answer_id |-> None, pc |-> "idle", instances |-> {}]

\* nothing has happened yet: no attempt, empty Redis, default aggregates
InitAttempts ==
  /\ now = 0
  /\ ticks = 0
  /\ completion_time \in [Quizzes -> {2}]
  /\ attempts = <<>>
  /\ attempt_seq = 0
  /\ answer_cache = <<>>
  /\ result_archive = <<>>
  /\ scored = {}
  /\ touched = {}
  /\ expired = {}
  /\ background_tasks = {}
  /\ overall_avg_score = [u \in Users |-> <<0, 1>>]
  /\ average_score = [m \in Users \X Companies |-> <<0, 1>>]
  /\ company_user = [m \in Admins \X Companies |-> "owner"]
  /\ company_request = <<>>
  /\ company_request_seq = 0
  /\ requests = [r \in Slots |-> Idle]

Init ==
  /\ InitAttempts
  /\ quiz_rows = QuizFixture
  /\ question_rows = QuestionFixture
  /\ answer_rows = AnswerFixture
  /\ question_seq = 3
  /\ answer_seq = 6

\* background_tasks.add_task(fn, ...): one scheduled call
Task(fn, args) == [fn |-> fn, args |-> args]

\* BackgroundTasks.__call__ runs the tasks of one request in order: after the
\* head has run the rest of the list stays pending; an exception raised by
\* the head ends the list. Lists of different requests with the same calls
\* are kept once.
AfterTask(tasks, raised) ==
  IF raised \/ Tail(tasks) = <<>> THEN background_tasks \ {tasks}
  ELSE (background_tasks \ {tasks}) \cup {Tail(tasks)}

\* Redis drops the keys whose expiry time has been reached
Expire(store, t) == [k \in Live(store, t) |-> store[k]]

\* time passes
Tick ==
  /\ ticks < MaxTicks
  /\ \E d \in Steps :
       /\ now' = now + d
       /\ answer_cache' = Expire(answer_cache, now + d)
       /\ expired' = expired \cup (DOMAIN answer_cache \ Live(answer_cache, now + d))
       /\ result_archive' = Expire(result_archive, now + d)
  /\ ticks' = ticks + 1
  /\ UNCHANGED <<completion_time, attempts, attempt_seq, scored, touched,
                 catalog, background_tasks, scores, membership, requests>>

\* attempt rows inserted for users and quizzes outside Users and Quizzes:
\* they take the next ids of the shared sequence and nothing else here reads them
start_quiz_attempt_other ==
  /\ attempt_seq + OtherBurst <= MaxAttemptId
  /\ attempt_seq' = attempt_seq + OtherBurst
  /\ UNCHANGED <<now, ticks, completion_time, attempts, answer_cache,
                 result_archive, scored, touched, expired, catalog, background_tasks, scores, membership, requests>>

\* AttemptRepository.create_attempt: the inserted row
create_attempt(quiz_id, user_id, quiz_completion_time) ==
  [quiz_id |-> quiz_id, user_id |-> user_id,
   start_time |-> now,
   end_time |-> now + quiz_completion_time * SecondsPerMinute,
   spent_time |-> Placeholder(quiz_completion_time),
   result |-> None]

\* start_quiz_attempt: the response the handler gives in the current state
start_response(user_id, quiz_id) ==
  IF quiz_id \notin Quizzes THEN Response(404, "Requested quiz is not found")
  ELSE IF ~FullyCreated(quiz_id) THEN Response(400, "temporarily unavailable")
  ELSE IF ~user_has_attempts(quiz_id, user_id) THEN Response(400, "used all available attempts")
  ELSE IF has_started_attempt(user_id, quiz_id) = "raise" THEN Response(500, "MultipleResultsFound")
  ELSE IF has_started_attempt(user_id, quiz_id) = "true" THEN Response(400, "ongoing attempt")
  ELSE Response(200, "AttemptReturn")

\* POST /quizzes/{quiz_id}/attempt/start/
start_quiz_attempt(user_id, quiz_id) ==
  /\ IF start_response(user_id, quiz_id).status = 200
     THEN /\ attempt_seq < MaxAttemptId
          /\ attempt_seq' = attempt_seq + 1
          /\ attempts' = Put(attempts, attempt_seq + 1,
                             create_attempt(quiz_id, user_id, completion_time[quiz_id]))
     ELSE UNCHANGED <<attempts, attempt_seq>>
  /\ UNCHANGED <<now, ticks, completion_time, answer_cache, result_archive,
                 scored, touched, expired, catalog, background_tasks, scores, membership, requests>>

\* get_attempt_by_id as it would be without the validate_user branch
get_attempt_by_id_unvalidated(attempt_id, current_user_id) ==
  IF attempt_id \notin DOMAIN attempts THEN "none"
  ELSE "found"

\* AttemptRepository.get_attempt_by_id with validate_user=True:
\* "none", "forbidden" (HTTPException 403) or "found"
get_attempt_by_id(attempt_id, current_user_id) ==
  IF attempt_id \notin DOMAIN attempts THEN "none"
  ELSE IF attempts[attempt_id].user_id # current_user_id THEN "forbidden"
  ELSE "found"

\* save_answer as it would be if it looked at the attempt once more before
\* writing
save_answer_if_active(attempt_id, quiz_id, question_id, answer_id, quiz_completion_time) ==
  IF attempt_is_completed(attempts[attempt_id], now, completion_time) THEN answer_cache
  ELSE Put(answer_cache, <<attempt_id, quiz_id, question_id>>,
           [value |-> answer_id,
            expire_at |-> now + quiz_completion_time * SecondsPerMinute + GraceSeconds])

\* AttemptRepository.save_answer: redis.set(key, answer_id, ex=ct * 60 + 120)
save_answer(attempt_id, quiz_id, question_id, answer_id, quiz_completion_time) ==
  Put(answer_cache, <<attempt_id, quiz_id, question_id>>,
      [value |-> answer_id,
       expire_at |-> now + quiz_completion_time * SecondsPerMinute + GraceSeconds])

\* answer_question as it would respond without the two membership checks
\* (request_question.quiz_id, request_answer.question_id)
answer_response_unchecked(user_id, attempt_id, question_id, answer_id) ==
  LET found == get_attempt_by_id(attempt_id, user_id) IN
  IF found = "forbidden" THEN Response(403, "Forbidden")
  ELSE IF found = "none" THEN Response(404, "Attempt is not found")
  ELSE IF attempt_is_completed(attempts[attempt_id], now, completion_time)
       THEN Response(400, "already completed")
  ELSE IF question_id \notin Questions THEN Response(404, "Question is not found")
  ELSE IF answer_id \notin Answers THEN Response(404, "Answer is not found")
  ELSE Response(200, "Answer received")

\* answer_question: the response the handler gives in the current state
answer_response(user_id, attempt_id, question_id, answer_id) ==
  LET found == get_attempt_by_id(attempt_id, user_id) IN
  IF found = "forbidden" THEN Response(403, "Forbidden")
  ELSE IF found = "none" THEN Response(404, "Attempt is not found")
  ELSE IF attempt_is_completed(attempts[attempt_id], now, completion_time)
       THEN Response(400, "already completed")
  ELSE IF question_id \notin Questions THEN Response(404, "Question is not found")
  ELSE IF QuestionQuiz(question_id) # attempts[attempt_id].quiz_id
       THEN Response(400, "Quiz doesn't have question")
  ELSE IF answer_id \notin Answers THEN Response(404, "Answer is not found")
  ELSE IF AnswerQuestion(answer_id) # question_id
       THEN Response(400, "Question doesn't have answer")
  ELSE Response(200, "Answer received")

\* POST /attempts/{attempt_id}/answer-question/{question_id}/{answer_id}/
answer_question(user_id, attempt_id, question_id, answer_id) ==
  /\ IF answer_response(user_id, attempt_id, question_id, answer_id).status = 200
     THEN /\ answer_cache' = save_answer(attempt_id, attempts[attempt_id].quiz_id,
                                         question_id, answer_id,
                                         completion_time[attempts[attempt_id].quiz_id])
          /\ expired' = expired \ {<<attempt_id, attempts[attempt_id].quiz_id, question_id>>}
     ELSE UNCHANGED <<answer_cache, expired>>
  /\ UNCHANGED <<now, ticks, completion_time, attempts, attempt_seq,
                 result_archive, scored, touched, catalog, background_tasks, scores, membership, requests>>

\* calculate_attempt_result: the Answer rows whose id is among the values
\* read from the keys matching the attempt id
AnswersInstances(attempt_id) ==
  {an \in Answers : \E k \in KeysMatching(attempt_id, now) : answer_cache[k].value = an}

\* calculate_attempt_result: count of the instances flagged correct
CountCorrect(instances) == Cardinality({an \in instances : IsCorrect(an)})

\* calculate_attempt_result: the chosen answer per question; user_answer[0] is
\* the first instance of the question in the order the database returned them
QuestionRecords(quiz_id, instances) ==
  {f \in [QuizQuestions(quiz_id) -> Answers \cup {None}] :
     \A qn \in QuizQuestions(quiz_id) :
       LET user_answer == {an \in instances : AnswerQuestion(an) = qn} IN
       IF user_answer = {} THEN f[qn] = None ELSE f[qn] \in user_answer}

\* one question record of the archived document
Record(an) ==
  [user_answer |-> an,
   is_correct |-> IF an = None THEN "null" ELSE IF IsCorrect(an) THEN "true" ELSE "false"]

\* complete_attempt: the response the handler gives in the current state
\* (on 200 the body is "{result}/{questions_count}", see ResultString)
complete_response(user_id, attempt_id) ==
  LET found == get_attempt_by_id(attempt_id, user_id) IN
  IF found = "forbidden" THEN Response(403, "Forbidden")
  ELSE IF found = "none" THEN Response(404, "Attempt is not found")
  ELSE IF attempt_is_completed(attempts[attempt_id], now, completion_time)
       THEN Response(400, "already completed")
  ELSE Response(200, "result")

\* calculate_attempt_result: the returned f"{result}/{questions_count}"
ResultString(attempt_id) ==
  <<CountCorrect(AnswersInstances(attempt_id)), questions_count(attempts[attempt_id].quiz_id)>>

\* update_model_instance as it would be with a truthiness filter
\* ("if value"): a result of 0 would be dropped from the UPDATE
update_model_instance_truthy(row, spent_time, result) ==
  [row EXCEPT !.spent_time = spent_time,
              !.result = IF result > 0 THEN result ELSE @]

\* update_model_instance applied to AttemptResult(spent_time, result): the
\* UPDATE carries the values that are not None (spent_time is a string and
\* never None; a result of 0 is not None)
update_model_instance(row, spent_time, result) ==
  [row EXCEPT !.spent_time = spent_time,
              !.result = IF result # None THEN result ELSE @]

\* POST /attempts/{attempt_id}/complete/
complete_attempt(user_id, attempt_id) ==
  /\ IF complete_response(user_id, attempt_id).status = 200
     THEN LET attempt == attempts[attempt_id]
              spent_time_str == FormatSpent(now - attempt.start_time)
              answers_instances == AnswersInstances(attempt_id)
              result == CountCorrect(answers_instances)
          IN
          /\ attempts' = [attempts EXCEPT ![attempt_id] =
                            update_model_instance(attempt, spent_time_str, result)]
          /\ \E f \in QuestionRecords(attempt.quiz_id, answers_instances) :
               result_archive' = Put(result_archive, attempt_id,
                 [data |-> [quiz |-> attempt.quiz_id,
                            result |-> ResultString(attempt_id),
                            spent_time |-> <<spent_time_str, completion_time[attempt.quiz_id]>>,
                            questions |-> [qn \in QuizQuestions(attempt.quiz_id) |-> Record(f[qn])]],
                  expire_at |-> now + ArchiveTtl])
          /\ scored' = scored \cup {attempt_id}
          /\ background_tasks' = background_tasks \cup
               {<<Task("set_global_score", <<attempt.user_id>>),
                  Task("set_company_score",
                       <<attempt.user_id, quiz_rows[attempt.quiz_id].company_id>>)>>}
     ELSE UNCHANGED <<attempts, result_archive, scored, background_tasks>>
  /\ UNCHANGED <<now, ticks, completion_time, attempt_seq, answer_cache, touched, expired,
                 catalog, scores, membership, requests>>

\* sum([f[x] for x in S])
Sum(f, S) ==
  IF S = {} THEN 0
  ELSE LET x == CHOOSE y \in S : TRUE IN f[x] + Sum(f, S \ {x})

GCD(a, b) == IF b = 0 THEN a ELSE GCD(b, a % b)

\* results_count / questions_count, as the fraction in lowest terms
Divide(a, b) == <<a \div GCD(a, b), b \div GCD(a, b)>>

\* the avg_score computed from the selected Attemp rows, or the exception
\* raised on the way: sum() over a result that is None raises TypeError, a
\* questions_count of 0 raises ZeroDivisionError
avg_score(attemps) ==
  LET total_questions ==
        Sum([a \in attemps |-> questions_count(attempts[a].quiz_id)], attemps)
  IN
  IF \E a \in attemps : attempts[a].result = None
    THEN [raised |-> "TypeError", value |-> <<0, 1>>]
  ELSE IF total_questions = 0
    THEN [raised |-> "ZeroDivisionError", value |-> <<0, 1>>]
  ELSE [raised |-> "no",
        value |-> Divide(Sum([a \in attemps |-> attempts[a].result], attemps),
                         total_questions)]

\* set_global_score: select(Attemp).where(Attemp.user_id == user_id)
GlobalScoreRows(user_id) ==
  {a \in DOMAIN attempts : attempts[a].user_id = user_id}

\* background task UserRepository.set_global_score(user_id)
set_global_score(tasks) ==
  /\ Head(tasks).fn = "set_global_score"
  /\ LET user_id == Head(tasks).args[1]
         score == avg_score(GlobalScoreRows(user_id))
     IN
     /\ overall_avg_score' =
          IF score.raised = "no" THEN [overall_avg_score EXCEPT ![user_id] = score.value]
          ELSE overall_avg_score
     /\ background_tasks' = AfterTask(tasks, score.raised # "no")
  /\ UNCHANGED <<now, ticks, completion_time, attempts, attempt_seq, answer_cache,
                 result_archive, scored, touched, expired, catalog, average_score, membership, requests>>

\* set_company_score: select(Attemp).where((Attemp.user_id == user_id) &
\* (Attemp.quiz_id == Quiz.id) & (Company.id == Quiz.company_id)); the
\* company_id argument is not part of the condition
CompanyScoreRows(user_id, company_id) ==
  {a \in DOMAIN attempts :
     /\ attempts[a].user_id = user_id
     /\ attempts[a].quiz_id \in Quizzes
     /\ quiz_rows[attempts[a].quiz_id].company_id \in Companies}

\* background task UserRepository.set_company_score(user_id, company_id):
\* the UPDATE touches the CompanyUser row of (user_id, company_id)
set_company_score(tasks) ==
  /\ Head(tasks).fn = "set_company_score"
  /\ LET user_id == Head(tasks).args[1]
         company_id == Head(tasks).args[2]
         score == avg_score(CompanyScoreRows(user_id, company_id))
     IN
     /\ average_score' =
          IF score.raised = "no"
          THEN [average_score EXCEPT ![<<user_id, company_id>>] = score.value]
          ELSE average_score
     /\ background_tasks' = AfterTask(tasks, score.raised # "no")
  /\ UNCHANGED <<now, ticks, completion_time, attempts, attempt_seq, answer_cache,
                 result_archive, scored, touched, expired, catalog, overall_avg_score, membership, requests>>

\* what redis.get returns for an absent key
NoDocument == [quiz |-> None]

\* AttemptRepository.get_attempt_results: redis.get("attempt-answers:{id}")
get_attempt_results(attempt_id) ==
  IF attempt_id \in Live(result_archive, now)
  THEN result_archive[attempt_id].data ELSE NoDocument

\* get_attempt_answers: the response the handler gives in the current state
\* (on 200 the body is get_attempt_results(attempt_id))
results_response(user_id, attempt_id) ==
  LET found == get_attempt_by_id(attempt_id, user_id) IN
  IF found = "forbidden" THEN Response(403, "Forbidden")
  ELSE IF found = "none" THEN Response(404, "Attempt is not found")
  ELSE IF ~attempt_is_completed(attempts[attempt_id], now, completion_time)
       THEN Response(403, "Forbidden")
  ELSE IF get_attempt_results(attempt_id) = NoDocument THEN Response(404, "Not found")
  ELSE Response(200, "document")

\* GET /attempts/{attempt_id}/answers/ : reads only
get_attempt_answers(user_id, attempt_id) ==
  /\ results_response(user_id, attempt_id).status \in {200, 403, 404}
  /\ UNCHANGED vars

\* update_quiz: the response the handler gives in the current state
update_quiz_response(user_id, quiz_id) ==
  IF quiz_id \notin Quizzes THEN Response(404, "Quiz is not found")
  ELSE IF user_id \notin Admins THEN Response(403, "Forbidden")
  ELSE Response(200, "QuizSchema")

\* PATCH /quizzes/{quiz_id}/update/ with completion_time in the body
update_quiz(user_id, quiz_id, new_completion_time) ==
  /\ IF update_quiz_response(user_id, quiz_id).status = 200
     THEN /\ completion_time' = [completion_time EXCEPT ![quiz_id] = new_completion_time]
          /\ touched' = IF new_completion_time = completion_time[quiz_id] THEN touched
                         ELSE touched \cup {a \in DOMAIN attempts : attempts[a].quiz_id = quiz_id}
     ELSE UNCHANGED <<completion_time, touched>>
  /\ UNCHANGED <<now, ticks, attempts, attempt_seq, answer_cache, result_archive, scored,
                 expired, catalog, background_tasks, scores, membership, requests>>

(***************************************************************************)
(* Authoring of questions and answers, and the fully_created status tasks  *)
(***************************************************************************)
\* Question.answers
QuestionAnswers(qn) == {an \in Answers : AnswerQuestion(an) = qn}

\* get_question_by_id / get_answer_by_id / get_quiz_by_id with
\* admin_access_only=True: "none", "forbidden" (HTTPException 403) or "found"
get_by_id(ids, id, current_user_id) ==
  IF id \notin ids THEN "none"
  ELSE IF current_user_id \notin Admins THEN "forbidden"
  ELSE "found"

\* the BackgroundTasks of one more request can be taken on
CanSchedule(tasks) ==
  tasks \in background_tasks \/ Cardinality(background_tasks) < MaxPending

\* QuizRepository.unset_correct_answer: the body is "pass"
unset_correct_answer(rows, question_id) == rows

\* create_question: the response the handler gives in the current state
create_question_response(user_id, quiz_id) ==
  LET found == get_by_id(Quizzes, quiz_id, user_id) IN
  IF found = "none" THEN Response(404, "Quiz is not found")
  ELSE IF found = "forbidden" THEN Response(403, "Forbidden")
  ELSE Response(200, "QuestionSchema")

\* POST /quizzes/questions/: the row is inserted with fully_created = False
\* and no background task is added
create_question(user_id, quiz_id) ==
  /\ IF create_question_response(user_id, quiz_id).status = 200
     THEN /\ question_seq < MaxQuestionId
          /\ question_seq' = question_seq + 1
          /\ question_rows' = Put(question_rows, question_seq + 1,
                                  [quiz_id |-> quiz_id, fully_created |-> FALSE])
     ELSE UNCHANGED <<question_rows, question_seq>>
  /\ UNCHANGED <<workflow, quiz_rows, answer_rows, answer_seq, background_tasks, scores, membership, requests>>

\* the two status tasks added after an answer of the question has changed
StatusTasks(question_id) ==
  <<Task("set_question_status", <<question_id>>),
    Task("set_quiz_status", <<QuestionQuiz(question_id)>>)>>

\* create_answer: the response the handler gives in the current state
create_answer_response(user_id, question_id) ==
  LET found == get_by_id(Questions, question_id, user_id) IN
  IF found = "none" THEN Response(404, "Question is not found")
  ELSE IF found = "forbidden" THEN Response(403, "Forbidden")
  ELSE Response(200, "AnswerSchema")

\* POST /quizzes/answers/
create_answer(user_id, question_id, is_correct) ==
  /\ IF create_answer_response(user_id, question_id).status = 200
     THEN /\ answer_seq < MaxAnswerId
          /\ CanSchedule(StatusTasks(question_id))
          /\ answer_seq' = answer_seq + 1
          /\ answer_rows' =
               Put(IF is_correct THEN unset_correct_answer(answer_rows, question_id)
                   ELSE answer_rows,
                   answer_seq + 1,
                   [question_id |-> question_id, is_correct |-> is_correct])
          /\ background_tasks' = background_tasks \cup {StatusTasks(question_id)}
     ELSE UNCHANGED <<answer_rows, answer_seq, background_tasks>>
  /\ UNCHANGED <<workflow, quiz_rows, question_rows, question_seq, scores, membership, requests>>

\* update_question: the response the handler gives in the current state
update_question_response(user_id, question_id) ==
  LET found == get_by_id(Questions, question_id, user_id) IN
  IF found = "none" THEN Response(404, "Question is not found")
  ELSE IF found = "forbidden" THEN Response(403, "Forbidden")
  ELSE Response(200, "QuestionSchema")

\* PATCH /quizzes/questions/{question_id}/update/: only the title changes
update_question(user_id, question_id) ==
  /\ update_question_response(user_id, question_id).status \in {200, 403, 404}
  /\ UNCHANGED vars

\* update_answer: the response the handler gives in the current state
update_answer_response(user_id, answer_id) ==
  LET found == get_by_id(Answers, answer_id, user_id) IN
  IF found = "none" THEN Response(404, "Answer is not found")
  ELSE IF found = "forbidden" THEN Response(403, "Forbidden")
  ELSE IF IsCorrect(answer_id) THEN Response(400, "can't unset a correct answer")
  ELSE Response(200, "AnswerSchema")

\* PATCH /quizzes/answers/{answer_id}/update/ with is_correct in the body
update_answer(user_id, answer_id, is_correct) ==
  /\ IF update_answer_response(user_id, answer_id).status = 200
     THEN LET question_id == AnswerQuestion(answer_id) IN
          /\ CanSchedule(StatusTasks(question_id))
          /\ answer_rows' =
               [(IF is_correct THEN unset_correct_answer(answer_rows, question_id)
                 ELSE answer_rows) EXCEPT ![answer_id].is_correct = is_correct]
          /\ background_tasks' = background_tasks \cup {StatusTasks(question_id)}
     ELSE UNCHANGED <<answer_rows, background_tasks>>
  /\ UNCHANGED <<workflow, quiz_rows, question_rows, question_seq, answer_seq, scores, membership, requests>>

\* delete_question: the response the handler gives in the current state
delete_question_response(user_id, question_id) ==
  LET found == get_by_id(Questions, question_id, user_id) IN
  IF found = "none" THEN Response(404, "Question is not found")
  ELSE IF found = "forbidden" THEN Response(403, "Forbidden")
  ELSE Response(200, "DeletedInstanceResponse")

\* DELETE /quizzes/questions/{question_id}/delete/: the answers go with the
\* question (ondelete="CASCADE")
delete_question(user_id, question_id) ==
  /\ IF delete_question_response(user_id, question_id).status = 200
     THEN LET tasks == <<Task("set_quiz_status", <<QuestionQuiz(question_id)>>)>> IN
          /\ CanSchedule(tasks)
          /\ question_rows' = [qn \in Questions \ {question_id} |-> question_rows[qn]]
          /\ answer_rows' = [an \in Answers \ QuestionAnswers(question_id) |-> answer_rows[an]]
          /\ background_tasks' = background_tasks \cup {tasks}
     ELSE UNCHANGED <<question_rows, answer_rows, background_tasks>>
  /\ UNCHANGED <<workflow, quiz_rows, question_seq, answer_seq, scores, membership, requests>>

\* delete_answer as it would respond without the is_correct check
delete_answer_response_unguarded(user_id, answer_id) ==
  LET found == get_by_id(Answers, answer_id, user_id) IN
  IF found = "none" THEN Response(404, "Answer is not found")
  ELSE IF found = "forbidden" THEN Response(403, "Forbidden")
  ELSE Response(200, "DeletedInstanceResponse")

\* delete_answer: the response the handler gives in the current state
delete_answer_response(user_id, answer_id) ==
  LET found == get_by_id(Answers, answer_id, user_id) IN
  IF found = "none" THEN Response(404, "Answer is not found")
  ELSE IF found = "forbidden" THEN Response(403, "Forbidden")
  ELSE IF IsCorrect(answer_id) THEN Response(400, "can't delete a correct answer")
  ELSE Response(200, "DeletedInstanceResponse")

\* DELETE /quizzes/answers/{answer_id}/delete/
delete_answer(user_id, answer_id) ==
  /\ IF delete_answer_response(user_id, answer_id).status = 200
     THEN LET tasks == StatusTasks(AnswerQuestion(answer_id)) IN
          /\ CanSchedule(tasks)
          /\ answer_rows' = [an \in Answers \ {answer_id} |-> answer_rows[an]]
          /\ background_tasks' = background_tasks \cup {tasks}
     ELSE UNCHANGED <<answer_rows, background_tasks>>
  /\ UNCHANGED <<workflow, quiz_rows, question_rows, question_seq, answer_seq, scores, membership, requests>>

\* set_question_status as it would be if it only ever raised the flag
question_status_raise_only(question_id) ==
  \/ question_rows[question_id].fully_created
  \/ /\ Cardinality(QuestionAnswers(question_id)) >= 2
     /\ \E an \in QuestionAnswers(question_id) : IsCorrect(an)

\* set_question_status: the status it computes for the question
question_status(question_id) ==
  IF Cardinality(QuestionAnswers(question_id)) >= 2
  THEN \E an \in QuestionAnswers(question_id) : IsCorrect(an)
  ELSE FALSE

\* background task set_question_status(question_id); a question deleted in
\* the meantime is None and reading its answers raises AttributeError
set_question_status(tasks) ==
  /\ Head(tasks).fn = "set_question_status"
  /\ LET question_id == Head(tasks).args[1] IN
     IF question_id \in Questions
     THEN /\ question_rows' =
               [question_rows EXCEPT ![question_id].fully_created = question_status(question_id)]
          /\ background_tasks' = AfterTask(tasks, FALSE)
     ELSE /\ UNCHANGED question_rows
          /\ background_tasks' = AfterTask(tasks, TRUE)
  /\ UNCHANGED <<workflow, quiz_rows, answer_rows, question_seq, answer_seq, scores, membership, requests>>

\* set_quiz_status as it would be without the len(quiz.questions) >= 2 test
quiz_status_any_count(quiz_id) ==
  \A qn \in QuizQuestions(quiz_id) : question_rows[qn].fully_created

\* set_quiz_status: the status it computes for the quiz
quiz_status(quiz_id) ==
  IF Cardinality(QuizQuestions(quiz_id)) >= 2
  THEN \A qn \in QuizQuestions(quiz_id) : question_rows[qn].fully_created
  ELSE FALSE

\* background task set_quiz_status(quiz_id)
set_quiz_status(tasks) ==
  /\ Head(tasks).fn = "set_quiz_status"
  /\ LET quiz_id == Head(tasks).args[1] IN
     quiz_rows' = [quiz_rows EXCEPT ![quiz_id].fully_created = quiz_status(quiz_id)]
  /\ background_tasks' = AfterTask(tasks, FALSE)
  /\ UNCHANGED <<workflow, question_rows, answer_rows, question_seq, answer_seq, scores, membership, requests>>

(***************************************************************************)
(* Company membership: invitations and membership requests                 *)
(***************************************************************************)
\* CompanyRepository.check_user_membership: the CompanyUser row exists
check_user_membership(user_id, company_id) ==
  <<user_id, company_id>> \in DOMAIN company_user

\* CompanyRepository.user_has_role: the row exists and carries the role
user_has_role(user_id, company_id, role) ==
  /\ check_user_membership(user_id, company_id)
  /\ company_user[<<user_id, company_id>>] = role

\* the role check the handlers of a company's side make: Admin or Owner
IsAdminOrOwner(user_id, company_id) ==
  \/ user_has_role(user_id, company_id, "admin")
  \/ user_has_role(user_id, company_id, "owner")

\* CompanyRepository.get_company_by_id: no row, a permission error, or the row
get_company_by_id(company_id, user, admin_only) ==
  IF company_id \notin Companies THEN "none"
  ELSE IF admin_only /\ ~IsAdminOrOwner(user, company_id) THEN "forbidden"
  ELSE "found"

\* the rows the SELECT of check_existing_request matches: the receiver is
\* compared when one is given, the sender otherwise
ExistingRequests(company_id, receiver_id, sender_id) ==
  {r \in DOMAIN company_request :
     /\ company_request[r].company_id = company_id
     /\ IF receiver_id # None
          THEN company_request[r].receiver_id = receiver_id
          ELSE company_request[r].sender_id = sender_id}

\* CompanyRequestsRepository.check_existing_request: scalar_one_or_none raises
\* on more than one row
check_existing_request(company_id, receiver_id, sender_id) ==
  LET n == Cardinality(ExistingRequests(company_id, receiver_id, sender_id)) IN
  [raised |-> n > 1, value |-> n = 1]

\* the outcome of send_company_request before it inserts
send_company_request_response(company_id, sender_id, receiver_id, created) ==
  LET existing == check_existing_request(company_id, receiver_id, sender_id) IN
  IF existing.raised THEN Response(500, "MultipleResultsFound")
  ELSE IF existing.value
    THEN Response(400, "You've already sent a request to this user / company")
  ELSE created

\* the table after the INSERT of send_company_request
InsertRequest(company_id, sender_id, receiver_id) ==
  Put(company_request, company_request_seq + 1,
      [sender_id |-> sender_id, receiver_id |-> receiver_id,
       company_id |-> company_id])

\* the table after delete_company_request
DeleteRequest(request_id) ==
  [r \in DOMAIN company_request \ {request_id} |-> company_request[r]]

\* POST /companies/{company_id}/invite/{user_id}/ without the check for a
\* request the user has sent
invite_user_response_one_direction(actor, company_id, user_id) ==
  LET company == get_company_by_id(company_id, actor, TRUE) IN
  IF company = "forbidden" THEN Response(403, "Forbidden")
  ELSE IF company = "none" THEN Response(404, "Requested company is not found")
  ELSE IF user_id \notin Users THEN Response(404, "Requested user is not found")
  ELSE IF check_user_membership(user_id, company_id)
    THEN Response(400, "Requested user is already a member of the company")
  ELSE send_company_request_response(company_id, None, user_id,
                                     Response(201, "Invitation was successfully sent"))

\* POST /companies/{company_id}/invite/{user_id}/
invite_user_response(actor, company_id, user_id) ==
  LET company == get_company_by_id(company_id, actor, TRUE)
      requested == check_existing_request(company_id, None, user_id) IN
  IF company = "forbidden" THEN Response(403, "Forbidden")
  ELSE IF company = "none" THEN Response(404, "Requested company is not found")
  ELSE IF user_id \notin Users THEN Response(404, "Requested user is not found")
  ELSE IF check_user_membership(user_id, company_id)
    THEN Response(400, "Requested user is already a member of the company")
  ELSE IF requested.raised THEN Response(500, "MultipleResultsFound")
  ELSE IF requested.value
    THEN Response(400, "User have already sent a request to the company")
  ELSE send_company_request_response(company_id, None, user_id,
                                     Response(201, "Invitation was successfully sent"))

invite_user(actor, company_id, user_id) ==
  /\ company_request_seq < MaxRequestId
  /\ IF invite_user_response(actor, company_id, user_id).status = 201
       THEN /\ company_request' = InsertRequest(company_id, None, user_id)
            /\ company_request_seq' = company_request_seq + 1
       ELSE UNCHANGED <<company_request, company_request_seq>>
  /\ UNCHANGED <<workflow, catalog, background_tasks, scores, requests, company_user>>

\* POST /requests/send/{company_id}
request_company_membership_response(user, company_id) ==
  LET invited == check_existing_request(company_id, user, None) IN
  IF get_company_by_id(company_id, user, FALSE) = "none"
    THEN Response(404, "Requested company is not found")
  ELSE IF check_user_membership(user, company_id)
    THEN Response(400, "You are already a member of this company")
  ELSE IF invited.raised THEN Response(500, "MultipleResultsFound")
  ELSE IF invited.value
    THEN Response(400, "You have already received invitation to the company")
  ELSE send_company_request_response(company_id, user, None,
                                     Response(200, "Membership request was successfully sent"))

request_company_membership(user, company_id) ==
  /\ company_request_seq < MaxRequestId
  /\ IF request_company_membership_response(user, company_id).status = 200
       THEN /\ company_request' = InsertRequest(company_id, user, None)
            /\ company_request_seq' = company_request_seq + 1
       ELSE UNCHANGED <<company_request, company_request_seq>>
  /\ UNCHANGED <<workflow, catalog, background_tasks, scores, requests, company_user>>

\* CompanyRequestsRepository.accept_company_request: the CompanyUser row is
\* added and committed, then the request is deleted; a second row for the
\* same primary key makes the commit raise and the request stays
accept_company_request(request_id, is_invitation) ==
  LET request == company_request[request_id]
      user_id_to_add == IF is_invitation THEN request.receiver_id
                                         ELSE request.sender_id IN
  IF check_user_membership(user_id_to_add, request.company_id)
    THEN UNCHANGED membership
    ELSE /\ company_user' = Put(company_user,
                                <<user_id_to_add, request.company_id>>, "member")
         /\ company_request' = DeleteRequest(request_id)
         /\ UNCHANGED company_request_seq

\* POST /invitations/{invitation_id}/accept
accept_invitation_response(user, invitation_id) ==
  IF invitation_id \notin DOMAIN company_request
    THEN Response(404, "Invitation is not found")
  ELSE IF user # company_request[invitation_id].receiver_id
    THEN Response(403, "Forbidden")
  ELSE Response(200, "Invitation was successfully accepted")

accept_invitation(user, invitation_id) ==
  /\ IF accept_invitation_response(user, invitation_id).status = 200
       THEN accept_company_request(invitation_id, TRUE)
       ELSE UNCHANGED membership
  /\ UNCHANGED <<workflow, catalog, background_tasks, scores, requests>>

\* DELETE /invitations/{invitation_id}/cancel
cancel_invitation_response(user, invitation_id) ==
  IF invitation_id \notin DOMAIN company_request
    THEN Response(404, "Invitation is not found")
  ELSE IF ~IsAdminOrOwner(user, company_request[invitation_id].company_id)
    THEN Response(403, "Forbidden")
  ELSE Response(200, "Invitation was successfully canceled")

cancel_invitation(user, invitation_id) ==
  /\ company_request' =
       IF cancel_invitation_response(user, invitation_id).status = 200
         THEN DeleteRequest(invitation_id) ELSE company_request
  /\ UNCHANGED <<workflow, catalog, background_tasks, scores, requests, company_user,
                 company_request_seq>>

\* DELETE /invitations/{invitation_id}/decline
decline_invitation_response(user, invitation_id) ==
  IF invitation_id \notin DOMAIN company_request
    THEN Response(404, "Invitation is not found")
  ELSE IF user # company_request[invitation_id].receiver_id
    THEN Response(403, "Forbidden")
  ELSE Response(200, "Invitation was successfully declined")

decline_invitation(user, invitation_id) ==
  /\ company_request' =
       IF decline_invitation_response(user, invitation_id).status = 200
         THEN DeleteRequest(invitation_id) ELSE company_request
  /\ UNCHANGED <<workflow, catalog, background_tasks, scores, requests, company_user,
                 company_request_seq>>

\* POST /requests/{request_id}/accept
accept_request_response(user, request_id) ==
  IF request_id \notin DOMAIN company_request
    THEN Response(404, "Membership request is not found")
  ELSE IF company_request[request_id].sender_id = None
    THEN Response(403, "Forbidden")
  ELSE IF ~IsAdminOrOwner(user, company_request[request_id].company_id)
    THEN Response(403, "Forbidden")
  ELSE Response(200, "Membership request was successfully accepted")

accept_request(user, request_id) ==
  /\ IF accept_request_response(user, request_id).status = 200
       THEN accept_company_request(request_id, FALSE)
       ELSE UNCHANGED membership
  /\ UNCHANGED <<workflow, catalog, background_tasks, scores, requests>>

\* DELETE /requests/{request_id}/cancel
request_company_membership_cancel_response(user, request_id) ==
  IF request_id \notin DOMAIN company_request
    THEN Response(404, "Membership request is not found")
  ELSE IF user # company_request[request_id].sender_id
    THEN Response(403, "Forbidden")
  ELSE Response(200, "Membership request was successfully canceled")

request_company_membership_cancel(user, request_id) ==
  /\ company_request' =
       IF request_company_membership_cancel_response(user, request_id).status = 200
         THEN DeleteRequest(request_id) ELSE company_request
  /\ UNCHANGED <<workflow, catalog, background_tasks, scores, requests, company_user,
                 company_request_seq>>

\* DELETE /requests/{request_id}/decline
decline_request_response(user, request_id) ==
  IF request_id \notin DOMAIN company_request
    THEN Response(404, "Membership request is not found")
  ELSE IF company_request[request_id].sender_id = None
    THEN Response(403, "Forbidden")
  ELSE IF ~IsAdminOrOwner(user, company_request[request_id].company_id)
    THEN Response(403, "Forbidden")
  ELSE Response(200, "Membership request was successfully declined")

decline_request(user, request_id) ==
  /\ company_request' =
       IF decline_request_response(user, request_id).status = 200
         THEN DeleteRequest(request_id) ELSE company_request
  /\ UNCHANGED <<workflow, catalog, background_tasks, scores, requests, company_user,
                 company_request_seq>>

\* DELETE /companies/{company_id}/leave/
leave_company_response(user, company_id) ==
  IF get_company_by_id(company_id, user, FALSE) = "none"
    THEN Response(404, "Requested company is not found")
  ELSE IF ~check_user_membership(user, company_id)
    THEN Response(400, "User is not the member of the company")
  ELSE IF user_has_role(user, company_id, "owner")
    THEN Response(400, "Owner can't leave its company")
  ELSE Response(200, "You have successfully left company")

leave_company(user, company_id) ==
  /\ company_user' =
       IF leave_company_response(user, company_id).status = 200
         THEN [m \in DOMAIN company_user \ {<<user, company_id>>} |-> company_user[m]]
         ELSE company_user
  /\ UNCHANGED <<workflow, catalog, background_tasks, scores, requests, company_request,
                 company_request_seq>>

(***************************************************************************)
(* Overlapping requests: each handler runs up to its next database or      *)
(* cache await that touches shared rows or keys, then another may run.     *)
(* Reads of rows that no request of this part changes (the catalog, the    *)
(* count of user_has_attempts) are taken together with the read before.    *)
(***************************************************************************)
\* a request suspended in a handler: what it was called with, where it
\* stands, and the answer instances a complete request has read
Request(op, user, id, question_id, answer_id, pc, instances) ==
  [op |-> op, user |-> user, id |-> id, question_id |-> question_id,
   answer_id |-> answer_id, pc |-> pc, instances |-> instances]

\* the request of slot r moves on to the position pc
Suspend(r, request) == requests' = [requests EXCEPT ![r] = request]

\* the request of slot r has been answered
Answered(r) == requests' = [requests EXCEPT ![r] = Idle]

\* start_quiz_attempt up to create_attempt: the quiz, the quota and the
\* ongoing-attempt checks
start_quiz_attempt_checks(r, user_id, quiz_id) ==
  /\ requests[r] = Idle
  /\ IF start_response(user_id, quiz_id).status = 200
       THEN Suspend(r, Request("start", user_id, quiz_id, None, None, "create", {}))
       ELSE UNCHANGED requests
  /\ UNCHANGED <<workflow, catalog, background_tasks, scores, membership>>

\* start_quiz_attempt from create_attempt on: the INSERT and the response
start_quiz_attempt_create(r) ==
  /\ requests[r].op = "start"
  /\ requests[r].pc = "create"
  /\ attempt_seq < MaxAttemptId
  /\ attempt_seq' = attempt_seq + 1
  /\ attempts' = Put(attempts, attempt_seq + 1,
                     create_attempt(requests[r].id, requests[r].user,
                                    completion_time[requests[r].id]))
  /\ Answered(r)
  /\ UNCHANGED <<now, ticks, completion_time, answer_cache, result_archive,
                 scored, touched, expired, catalog, background_tasks, scores, membership>>

\* answer_question up to save_answer: every check of the handler
answer_question_checks(r, user_id, attempt_id, question_id, answer_id) ==
  /\ requests[r] = Idle
  /\ IF answer_response(user_id, attempt_id, question_id, answer_id).status = 200
       THEN Suspend(r, Request("answer", user_id, attempt_id, question_id, answer_id,
                               "save_answer", {}))
       ELSE UNCHANGED requests
  /\ UNCHANGED <<workflow, catalog, background_tasks, scores, membership>>

\* answer_question from save_answer on: redis.set and "Answer received"
answer_question_save(r) ==
  /\ requests[r].op = "answer"
  /\ requests[r].pc = "save_answer"
  /\ LET attempt_id == requests[r].id
         quiz_id == attempts[attempt_id].quiz_id IN
     /\ answer_cache' = save_answer(attempt_id, quiz_id, requests[r].question_id,
                                    requests[r].answer_id, completion_time[quiz_id])
     /\ expired' = expired \ {<<attempt_id, quiz_id, requests[r].question_id>>}
  /\ Answered(r)
  /\ UNCHANGED <<now, ticks, completion_time, attempts, attempt_seq,
                 result_archive, scored, touched, catalog, background_tasks, scores, membership>>

\* complete_attempt up to calculate_attempt_result: the attempt is loaded
\* and the completion predicate evaluated on it
complete_attempt_checks(r, user_id, attempt_id) ==
  /\ requests[r] = Idle
  /\ IF complete_response(user_id, attempt_id).status = 200
       THEN Suspend(r, Request("complete", user_id, attempt_id, None, None, "keys", {}))
       ELSE UNCHANGED requests
  /\ UNCHANGED <<workflow, catalog, background_tasks, scores, membership>>

\* calculate_attempt_result: redis.keys, redis.mget and the SELECT of the
\* Answer rows
calculate_attempt_result_scan(r) ==
  /\ requests[r].op = "complete"
  /\ requests[r].pc = "keys"
  /\ Suspend(r, [requests[r] EXCEPT !.pc = "update",
                                    !.instances = AnswersInstances(requests[r].id)])
  /\ UNCHANGED <<workflow, catalog, background_tasks, scores, membership>>

\* calculate_attempt_result: update_model_instance, the UPDATE of the row
calculate_attempt_result_update(r) ==
  /\ requests[r].op = "complete"
  /\ requests[r].pc = "update"
  /\ LET attempt_id == requests[r].id
         attempt == attempts[attempt_id] IN
     /\ attempts' = [attempts EXCEPT ![attempt_id] =
                      update_model_instance(attempt, FormatSpent(now - attempt.start_time),
                                            CountCorrect(requests[r].instances))]
     /\ scored' = scored \cup {attempt_id}
  /\ Suspend(r, [requests[r] EXCEPT !.pc = "set"])
  /\ UNCHANGED <<now, ticks, completion_time, attempt_seq, answer_cache, result_archive,
                 touched, expired, catalog, background_tasks, scores, membership>>

\* calculate_attempt_result: the document and redis.set; then the handler
\* schedules the score tasks and responds
calculate_attempt_result_archive(r) ==
  /\ requests[r].op = "complete"
  /\ requests[r].pc = "set"
  /\ LET attempt_id == requests[r].id
         attempt == attempts[attempt_id]
         spent_time_str == FormatSpent(now - attempt.start_time)
         answers_instances == requests[r].instances IN
     /\ \E f \in QuestionRecords(attempt.quiz_id, answers_instances) :
          result_archive' = Put(result_archive, attempt_id,
            [data |-> [quiz |-> attempt.quiz_id,
                       result |-> <<CountCorrect(answers_instances),
                                    questions_count(attempt.quiz_id)>>,
                       spent_time |-> <<spent_time_str, completion_time[attempt.quiz_id]>>,
                       questions |-> [qn \in QuizQuestions(attempt.quiz_id) |-> Record(f[qn])]],
             expire_at |-> now + ArchiveTtl])
     /\ background_tasks' = background_tasks \cup
          {<<Task("set_global_score", <<attempt.user_id>>),
             Task("set_company_score",
                  <<attempt.user_id, quiz_rows[attempt.quiz_id].company_id>>)>>}
  /\ Answered(r)
  /\ UNCHANGED <<now, ticks, completion_time, attempts, attempt_seq, answer_cache, scored,
                 touched, expired, catalog, scores, membership>>

\* attempt ids a request may name: the rows and one id that does not exist
AttemptIds == DOMAIN attempts \cup {attempt_seq + 1}

Next ==
  \/ Tick
  \/ \E u \in Starters, q \in Quizzes : start_quiz_attempt(u, q)
  \/ \E u \in Starters, a \in AttemptIds, i \in LifecycleInputs :
        answer_question(u, a, i[1], i[2])
  \/ \E u \in Starters, a \in AttemptIds : complete_attempt(u, a)
  \/ \E u \in Starters, a \in AttemptIds : get_attempt_answers(u, a)
  \/ \E u \in Admins, ct \in CompletionTimes : update_quiz(u, 1, ct)

Spec == Init /\ [][Next]_vars

\* scoring: several users answer and complete at one instant, with other
\* users' attempts taking ids in between
NextScoring ==
  \/ start_quiz_attempt_other
  \/ \E u \in Users, q \in QuizIds : start_quiz_attempt(u, q)
  \/ \E u \in Users, a \in AttemptIds, i \in ScoringInputs :
        answer_question(u, a, i[1], i[2])
  \/ \E u \in Users, a \in AttemptIds : complete_attempt(u, a)
  \/ \E u \in Users, a \in AttemptIds : get_attempt_answers(u, a)

SpecScoring == Init /\ [][NextScoring]_vars

\* aggregates: one user takes the quizzes of two companies; the score tasks
\* of a completed attempt run at any later moment
InitScores ==
  /\ InitAttempts
  /\ quiz_rows = QuizFixtureScores
  /\ question_rows = QuestionFixtureScores
  /\ answer_rows = AnswerFixtureScores
  /\ question_seq = 4
  /\ answer_seq = 8

\* some pending score task runs
RunScoreTasks ==
  \E tasks \in background_tasks : set_global_score(tasks) \/ set_company_score(tasks)

NextScores ==
  \/ \E u \in Starters, q \in Quizzes : start_quiz_attempt(u, q)
  \/ \E u \in Starters, a \in AttemptIds, i \in LifecycleInputs :
        answer_question(u, a, i[1], i[2])
  \/ \E u \in Starters, a \in AttemptIds : complete_attempt(u, a)
  \/ \E tasks \in background_tasks : set_global_score(tasks)
  \/ \E tasks \in background_tasks : set_company_score(tasks)

\* a scheduled background task is run once the response has been sent
SpecScores == InitScores /\ [][NextScores]_vars /\ WF_vars(RunScoreTasks)

\* question and answer ids the authoring requests name: the rows of quiz 1
\* and one id that does not exist
AuthoredQuestions == QuizQuestions(1) \cup {MissingQuestion}
AuthoredAnswers ==
  {an \in Answers : AnswerQuestion(an) \in QuizQuestions(1)} \cup {MissingAnswer}

\* authoring: an admin edits quiz 1 while a user starts attempts, and the
\* status tasks run at any later moment
NextCatalog ==
  \/ \E u \in Admins : create_question(u, 1)
  \/ \E u \in Admins, qn \in AuthoredQuestions, c \in BOOLEAN : create_answer(u, qn, c)
  \/ \E u \in Admins, qn \in AuthoredQuestions : update_question(u, qn)
  \/ \E u \in Admins, an \in AuthoredAnswers, c \in BOOLEAN : update_answer(u, an, c)
  \/ \E u \in Admins, qn \in AuthoredQuestions : delete_question(u, qn)
  \/ \E u \in Admins, an \in AuthoredAnswers : delete_answer(u, an)
  \/ \E tasks \in background_tasks : set_question_status(tasks)
  \/ \E tasks \in background_tasks : set_quiz_status(tasks)
  \/ \E u \in Starters : start_quiz_attempt(u, 1)

SpecCatalog == Init /\ [][NextCatalog]_vars

\* request ids a membership request may name: the rows and one that is absent
RequestIds == DOMAIN company_request \cup {company_request_seq + 1}

\* membership: every user invites, requests, accepts, declines, cancels and
\* leaves, in every company and on every request row
NextRequests ==
  \/ \E actor \in Users, c \in Companies, u \in Users : invite_user(actor, c, u)
  \/ \E u \in Users, c \in Companies : request_company_membership(u, c)
  \/ \E u \in Users, r \in RequestIds : accept_invitation(u, r)
  \/ \E u \in Users, r \in RequestIds : cancel_invitation(u, r)
  \/ \E u \in Users, r \in RequestIds : decline_invitation(u, r)
  \/ \E u \in Users, r \in RequestIds : accept_request(u, r)
  \/ \E u \in Users, r \in RequestIds : request_company_membership_cancel(u, r)
  \/ \E u \in Users, r \in RequestIds : decline_request(u, r)
  \/ \E u \in Users, c \in Companies : leave_company(u, c)

SpecRequests == Init /\ [][NextRequests]_vars

\* overlap: one user's start, answer and complete requests on quiz 1, each
\* suspended at its awaits while the other runs
NextConcurrent ==
  \/ \E r \in Slots, u \in Starters : start_quiz_attempt_checks(r, u, 1)
  \/ \E r \in Slots : start_quiz_attempt_create(r)
  \/ \E r \in Slots, u \in Starters, a \in DOMAIN attempts, i \in ConcurrentInputs :
        answer_question_checks(r, u, a, i[1], i[2])
  \/ \E r \in Slots : answer_question_save(r)
  \/ \E r \in Slots, u \in Starters, a \in DOMAIN attempts : complete_attempt_checks(r, u, a)
  \/ \E r \in Slots : calculate_attempt_result_scan(r)
  \/ \E r \in Slots : calculate_attempt_result_update(r)
  \/ \E r \in Slots : calculate_attempt_result_archive(r)

SpecConcurrent == Init /\ [][NextConcurrent]_vars

\* the answers of question 1 that the users of the ownership scenario send
OwnershipInputs == {<<1, 1>>, <<1, 2>>}

\* ownership: two users take quiz 1 and send every request on every attempt,
\* their own and the other user's
NextOwnership ==
  \/ \E u \in Users : start_quiz_attempt(u, 1)
  \/ \E u \in Users, a \in AttemptIds, i \in OwnershipInputs :
        answer_question(u, a, i[1], i[2])
  \/ \E u \in Users, a \in AttemptIds : complete_attempt(u, a)
  \/ \E u \in Users, a \in AttemptIds : get_attempt_answers(u, a)

SpecOwnership == Init /\ [][NextOwnership]_vars

(***************************************************************************)
(* Vocabulary of the claims                                                *)
(***************************************************************************)
\* the user an attempt belongs to
Owner(a) == attempts[a].user_id
\* the completion predicate as the handlers evaluate it now
Completed(a) == attempt_is_completed(attempts[a], now, completion_time)
\* the stored window [start_time, end_time] contains the present instant
InWindow(a) == attempts[a].start_time <= now /\ now <= attempts[a].end_time
\* some request that answer_question accepts on an Active attempt of quiz 1
ValidAnswerAccepted(a) == answer_response(Owner(a), a, 1, 1).status = 200
\* the rows of (user, quiz) that the completion predicate calls not completed
ActiveOf(u, q) == {a \in AttemptsOf(u, q) : ~Completed(a)}

(***************************************************************************)
(* C1..C10                                                                 *)
(***************************************************************************)

\* C1 (as claimed): once complete has succeeded on an attempt, every later
\* complete request by its owner is rejected with 400 "already completed",
\* so the stored result and spent_time are written exactly once.
C1_SingleScoring ==
  \A a \in scored : complete_response(Owner(a), a) = Response(400, "already completed")

\* C2: the number of Attempt rows of a (user, quiz) never exceeds 2, after any
\* sequence of requests served one at a time.
C2_QuotaInvariant ==
  \A u \in Users, q \in Quizzes : Cardinality(AttemptsOf(u, q)) <= AttemptQuota

\* C2 witness: a user holds two rows of a quiz and asks to start again;
\* the request inserts nothing because it fails.
C2_Witness ==
  \E u \in Users, q \in Quizzes :
    /\ Cardinality(AttemptsOf(u, q)) = AttemptQuota
    /\ start_response(u, q).status # 200

\* C3 (as claimed): a start request by a user who already has 2 rows of the
\* quiz is rejected with 400 "used all available attempts".
C3_QuotaError ==
  \A u \in Users, q \in Quizzes :
    Cardinality(AttemptsOf(u, q)) >= AttemptQuota
      => start_response(u, q) = Response(400, "used all available attempts")

\* C4 (as claimed): Completed is absorbing: while the quiz configuration is
\* unchanged, an attempt for which the completion predicate is true stays
\* completed at every later time.
C4_CompletedAbsorbing ==
  [][\A a \in DOMAIN attempts :
       (Completed(a) /\ completion_time' = completion_time) => Completed(a)']_vars

\* C5 (as claimed): an attempt that was never completed explicitly and whose
\* quiz is unchanged is Active at every instant of [start_time, end_time]:
\* answer and complete are accepted and get_results is Forbidden.
C5_ActiveInWindow ==
  \A a \in DOMAIN attempts :
    (a \notin scored /\ a \notin touched /\ InWindow(a))
      => /\ ValidAnswerAccepted(a)
         /\ complete_response(Owner(a), a).status = 200
         /\ results_response(Owner(a), a).status = 403

\* C6 (as claimed): an answer request on an attempt that was explicitly
\* completed, or whose end_time has passed, is rejected with 400.
C6_CompletionGating ==
  \A a \in DOMAIN attempts :
    (a \in scored \/ now > attempts[a].end_time)
      => answer_response(Owner(a), a, 1, 1) = Response(400, "already completed")

\* C7 (as claimed): for the owner, get_results is 403 before the attempt is
\* completed, returns the archived document after complete has succeeded, and
\* is 404 once the archive entry has expired.
C7_ResultVisibility ==
  \A a \in DOMAIN attempts :
    /\ (a \notin scored /\ now <= attempts[a].end_time)
         => results_response(Owner(a), a).status = 403
    /\ (a \in scored /\ a \in Live(result_archive, now))
         => /\ results_response(Owner(a), a).status = 200
            /\ get_attempt_results(a) = result_archive[a].data
    /\ (a \in scored /\ a \notin Live(result_archive, now))
         => results_response(Owner(a), a).status = 404

\* C8 (as claimed): a (user, quiz) has at most one attempt that is not
\* completed, and a start request while one exists is rejected with 400
\* "ongoing attempt".
C8_OneActiveAttempt ==
  \A u \in Users, q \in Quizzes :
    /\ Cardinality(ActiveOf(u, q)) <= 1
    /\ ActiveOf(u, q) # {} => start_response(u, q) = Response(400, "ongoing attempt")

\* C9 (as claimed): end_time is fixed at creation, and a change of the quiz's
\* completion_time leaves an Active attempt Active.
C9_DeadlineFixed ==
  [][\A a \in DOMAIN attempts :
       /\ attempts'[a].end_time = attempts[a].end_time
       /\ (completion_time' # completion_time /\ ~Completed(a)) => ~Completed(a)']_vars

\* the questions of the attempt's quiz whose cached answer for this attempt
\* is flagged correct
OwnCorrect(a) ==
  {qn \in QuizQuestions(attempts[a].quiz_id) :
     LET k == <<a, attempts[a].quiz_id, qn>> IN
     k \in Live(answer_cache, now) /\ IsCorrect(answer_cache[k].value)}

\* C10 (as claimed): when complete succeeds, the stored result and the n of
\* the returned "n/total" equal the number of questions whose cached answer
\* for that attempt is flagged correct.
C10_Scoring ==
  [][\A a \in DOMAIN attempts :
       (complete_response(Owner(a), a).status = 200 /\ complete_attempt(Owner(a), a))
         => /\ attempts'[a].result = Cardinality(OwnCorrect(a))
            /\ ResultString(a)[1] = Cardinality(OwnCorrect(a))]_vars

(***************************************************************************)
(* C11..C20                                                                *)
(***************************************************************************)

\* the answer cached for this attempt and question, None when there is none
OwnAnswer(a, qn) ==
  LET k == <<a, attempts[a].quiz_id, qn>> IN
  IF k \in Live(answer_cache, now) THEN answer_cache[k].value ELSE None

\* the step is a complete request of the owner that succeeds
CompleteSucceeds(a) ==
  complete_response(Owner(a), a).status = 200 /\ complete_attempt(Owner(a), a)

\* the step is an answer request of the owner that is accepted
AnswerAccepted(a, qn, an) ==
  answer_response(Owner(a), a, qn, an).status = 200 /\ answer_question(Owner(a), a, qn, an)

\* C11 (as claimed): an accepted answer B replaces the entry of the same
\* (attempt, question), so the cache holds one entry for the question with
\* value B; when complete then succeeds, the document's record of every
\* answered question is the record of its latest answer, and the result
\* counts the latest answers only.
C11_LastWriteWins ==
  [][\A a \in DOMAIN attempts :
       /\ \A i \in ScoringInputs :
            AnswerAccepted(a, i[1], i[2])
              => /\ OwnAnswer(a, i[1])' = i[2]
                 /\ Cardinality({k \in DOMAIN answer_cache' :
                                   k[1] = a /\ k[3] = i[1]}) = 1
       /\ CompleteSucceeds(a)
            => /\ \A qn \in QuizQuestions(attempts[a].quiz_id) :
                    OwnAnswer(a, qn) # None
                      => result_archive'[a].data.questions[qn] = Record(OwnAnswer(a, qn))
               /\ attempts'[a].result =
                    CountCorrect({OwnAnswer(a, qn) : qn \in Questions} \ {None})]_vars

\* C12 (as claimed): when complete succeeds on an attempt, the answers it
\* loads from the cache are exactly the answers cached for that attempt;
\* entries of other attempts are never read.
C12_AttemptIsolation ==
  [][\A a \in DOMAIN attempts :
       CompleteSucceeds(a)
         => /\ \A k \in KeysMatching(a, now) : k[1] = a
            /\ AnswersInstances(a) = {OwnAnswer(a, qn) : qn \in Questions} \ {None}]_vars

\* C13 (as claimed): the archived document has one record per question of
\* the quiz; a question not answered in this attempt has a null answer and
\* a null correctness, an answered one has the answer chosen in this attempt
\* and that answer's correctness.
C13_ResultDocument ==
  [][\A a \in DOMAIN attempts :
       CompleteSucceeds(a)
         => LET doc == result_archive'[a].data IN
            /\ DOMAIN doc.questions = QuizQuestions(attempts[a].quiz_id)
            /\ \A qn \in DOMAIN doc.questions :
                 doc.questions[qn] = Record(OwnAnswer(a, qn))]_vars

\* C14: every answer, complete and results request on an existing attempt by
\* a user who does not own it is answered 403, and the step changes nothing.
C14_Ownership ==
  [][\A a \in DOMAIN attempts : \A u \in Users \ {Owner(a)} :
       /\ \A i \in OwnershipInputs : answer_response(u, a, i[1], i[2]).status = 403
       /\ complete_response(u, a).status = 403
       /\ results_response(u, a).status = 403
       /\ ( \/ \E i \in OwnershipInputs : answer_question(u, a, i[1], i[2])
            \/ complete_attempt(u, a)
            \/ get_attempt_answers(u, a) ) => UNCHANGED vars]_vars

\* C14 witness: a scored attempt with a cached answer, and another user whose
\* requests on it are refused
C14_Witness ==
  \E a \in scored : \E u \in Users \ {Owner(a)} :
    /\ OwnAnswer(a, 1) # None
    /\ complete_response(u, a).status = 403
    /\ results_response(u, a).status = 403

C16_ResultNullness ==
  \A a \in DOMAIN attempts : (attempts[a].result = None) <=> (a \notin scored)

\* C16 witness: an attempt completed with no correct answer, stored as 0
C16_Witness ==
  \E a \in scored : attempts[a].result = 0

\* sum(result) / sum(questions_count) over the given Attempt rows, a row
\* never completed contributing no result; 0 when there is nothing to divide
ClaimedAverage(rows) ==
  LET total == Sum([a \in rows |-> questions_count(attempts[a].quiz_id)], rows) IN
  IF total = 0 THEN <<0, 1>>
  ELSE Divide(Sum([a \in rows |-> IF attempts[a].result = None THEN 0
                                   ELSE attempts[a].result], rows), total)

\* a set_global_score task of the user is scheduled and has not run
GlobalPending(u) ==
  \E tasks \in background_tasks : Head(tasks) = Task("set_global_score", <<u>>)

\* C17 (as claimed): whenever a successful complete has scheduled
\* set_global_score for a user, the user's overall_avg_score eventually is
\* sum(result) / sum(questions_count) over all of the user's Attempt rows,
\* also when some of these rows were never completed.
C17_GlobalScoreEventually ==
  \A u \in Users :
    GlobalPending(u) ~> (overall_avg_score[u] = ClaimedAverage(GlobalScoreRows(u)))

\* the user's Attempt rows on quizzes owned by the company
CompanyRows(u, c) ==
  {a \in GlobalScoreRows(u) : quiz_rows[attempts[a].quiz_id].company_id = c}

\* C18 (as claimed): when set_company_score(user_id, company_id) writes the
\* CompanyUser row, the average_score it stores is the average over the
\* user's attempts on the quizzes of company_id only.
C18_CompanyScoreScope ==
  [][\A tasks \in background_tasks :
       LET u == Head(tasks).args[1]
           c == IF Len(Head(tasks).args) = 2 THEN Head(tasks).args[2] ELSE 0
       IN
       (/\ Head(tasks).fn = "set_company_score"
        /\ set_company_score(tasks)
        /\ avg_score(CompanyScoreRows(u, c)).raised = "no")
         => average_score'[<<u, c>>] = ClaimedAverage(CompanyRows(u, c))]_vars

\* a status task is scheduled and has not run
StatusPending ==
  \E tasks \in background_tasks :
    Head(tasks).fn \in {"set_question_status", "set_quiz_status"}

\* the answers of the question that are flagged correct
CorrectAnswers(qn) == {an \in QuestionAnswers(qn) : IsCorrect(an)}

\* the quiz has at least 2 questions, each with at least 2 answers of which
\* exactly one is flagged correct
WellFormed(q) ==
  /\ Cardinality(QuizQuestions(q)) >= 2
  /\ \A qn \in QuizQuestions(q) :
       /\ Cardinality(QuestionAnswers(qn)) >= 2
       /\ Cardinality(CorrectAnswers(qn)) = 1

\* C19 (as claimed): while no status task is pending, a quiz flagged
\* fully_created has at least 2 questions, each with at least 2 answers and
\* exactly one of them correct, and so has every quiz a start request is
\* admitted on.
C19_FullyCreatedWellFormed ==
  ~StatusPending =>
    \A q \in Quizzes :
      /\ FullyCreated(q) => WellFormed(q)
      /\ \A u \in Users : start_response(u, q).status = 200 => WellFormed(q)

\* C20 (as claimed): every question has at most one answer flagged correct.
C20_OneCorrectAnswer ==
  \A qn \in Questions : Cardinality(CorrectAnswers(qn)) <= 1

(***************************************************************************)
(* C21..C30                                                                *)
(***************************************************************************)

\* C21: a delete or an update of an answer flagged correct is answered 400
\* and changes nothing, and a question that has a correct answer and still
\* exists after a step has a correct answer after it.
C21_CorrectAnswerKept ==
  [][/\ \A an \in Answers : \A u \in Admins :
          IsCorrect(an)
            => /\ delete_answer_response(u, an).status = 400
               /\ update_answer_response(u, an).status = 400
               /\ (delete_answer(u, an) \/ \E c \in BOOLEAN : update_answer(u, an, c))
                    => UNCHANGED vars
     /\ \A qn \in Questions \cap Questions' :
          CorrectAnswers(qn) # {} => CorrectAnswers(qn)' # {}]_vars

\* C21 witness: the other answer of question 1 has been deleted and the
\* correct one is still there, refusing both requests
C21_Witness ==
  /\ 1 \in Questions
  /\ 2 \notin Answers
  /\ 1 \in CorrectAnswers(1)
  /\ delete_answer_response(1, 1).status = 400
  /\ update_answer_response(1, 1).status = 400

\* C22: when set_question_status runs on a question that exists, the flag
\* it leaves is true exactly when the question has at least 2 answers and
\* at least one of them is flagged correct.
C22_QuestionStatus ==
  [][\A tasks \in background_tasks :
       LET qn == Head(tasks).args[1] IN
       (Head(tasks).fn = "set_question_status" /\ set_question_status(tasks)
          /\ qn \in Questions)
         => (question_rows'[qn].fully_created
               <=> (Cardinality(QuestionAnswers(qn)) >= 2 /\ CorrectAnswers(qn) # {}))]_vars

\* C22 witness: question 1 lost an answer, was lowered, got a new answer and
\* was raised again
C22_Witness ==
  /\ 1 \in Questions
  /\ 2 \notin Answers
  /\ 7 \in QuestionAnswers(1)
  /\ question_rows[1].fully_created
  /\ ~StatusPending

\* C23: when set_quiz_status runs, the flag it leaves is true exactly when
\* the quiz has at least 2 questions and all of them are flagged
\* fully_created.
C23_QuizStatus ==
  [][\A tasks \in background_tasks :
       LET q == Head(tasks).args[1] IN
       (Head(tasks).fn = "set_quiz_status" /\ set_quiz_status(tasks))
         => (quiz_rows'[q].fully_created
               <=> (/\ Cardinality(QuizQuestions(q)) >= 2
                    /\ \A qn \in QuizQuestions(q) : question_rows[qn].fully_created))]_vars

\* C23 witness: quiz 1 has been lowered after a question was deleted
C23_Witness ==
  /\ Cardinality(QuizQuestions(1)) = 1
  /\ ~quiz_rows[1].fully_created
  /\ ~StatusPending

\* the pending CompanyRequest rows between a user and a company, both directions
PendingOf(u, c) ==
  {r \in DOMAIN company_request :
     /\ company_request[r].company_id = c
     /\ company_request[r].sender_id = u \/ company_request[r].receiver_id = u}
\* the user has asked to join the company and the request is pending
HasRequested(u, c) == \E r \in PendingOf(u, c) : company_request[r].sender_id = u
\* the company has invited the user and the invitation is pending
IsInvited(u, c) == \E r \in PendingOf(u, c) : company_request[r].receiver_id = u

\* C24: between a user and a company there is never more than one pending
\* CompanyRequest, whichever side sent it; inviting a user whose request is
\* pending and requesting to join a company whose invitation is pending are
\* answered 400 and leave the tables as they were.
C24_OnePendingRequest ==
  [][\A u \in Users, c \in Companies :
       /\ Cardinality(PendingOf(u, c))' <= 1
       /\ HasRequested(u, c)
            => \A actor \in Users :
                 /\ IsAdminOrOwner(actor, c)
                      => invite_user_response(actor, c, u).status = 400
                 /\ invite_user(actor, c, u) => UNCHANGED vars
       /\ IsInvited(u, c)
            => /\ request_company_membership_response(u, c).status = 400
               /\ request_company_membership(u, c) => UNCHANGED vars]_vars

\* user 2 has asked to join company 1 and is invited to company 2: both
\* opposite requests are refused
C24_Witness ==
  /\ HasRequested(2, 1)
  /\ IsInvited(2, 2)
  /\ invite_user_response(1, 1, 2).status = 400
  /\ request_company_membership_response(2, 2).status = 400

\* C25 (as claimed): the minute component of an attempt's spent_time differs
\* from the completion_time its quiz has now exactly when complete has
\* succeeded on the attempt.
C25_SentinelExact ==
  \A a \in DOMAIN attempts :
    (SpentMinutes(attempts[a].spent_time) # completion_time[attempts[a].quiz_id])
      <=> a \in scored

\* C28 (as claimed): an accepted answer is never dropped by Redis before
\* scoring: no complete request is accepted for an attempt while the entry of
\* one of its accepted answers has expired.
C28_NoAnswerLost ==
  \A k \in expired :
    k[1] \in DOMAIN attempts => complete_response(Owner(k[1]), k[1]).status # 200

\* C29 (as claimed): the result stored by a complete call lies between 0 and
\* the number of questions of the quiz and equals the number of question
\* records with is_correct = true in the document the same call archived.
C29_ResultMatchesDocument ==
  \A a \in DOMAIN result_archive :
    LET doc == result_archive[a].data IN
    /\ 0 <= attempts[a].result
    /\ attempts[a].result <= questions_count(attempts[a].quiz_id)
    /\ attempts[a].result =
         Cardinality({qn \in DOMAIN doc.questions : doc.questions[qn].is_correct = "true"})

\* C26 (as claimed): of two overlapping complete requests on one attempt at
\* most one updates the Attempt row and at most one writes the Result
\* Archive: no request updates a row that a complete request has already
\* scored, nor archives a document over one already archived.
C26_ScoredOnce ==
  [][\A r \in Slots :
       /\ (requests[r].pc = "update" /\ calculate_attempt_result_update(r))
            => requests[r].id \notin scored
       /\ (requests[r].pc = "set" /\ calculate_attempt_result_archive(r))
            => requests[r].id \notin DOMAIN result_archive]_vars

\* C27: an answer request that has passed its checks is not held back by a
\* complete request on the same attempt: it writes its cache entry (and is
\* answered "Answer received") whatever has happened to the attempt since,
\* and the write changes neither the stored result nor the archived
\* document; the scan of complete reads the entries written so far, so it
\* sees the answer exactly when the write came first.
C27_AnswerCompleteRace ==
  [][\A r \in Slots :
       /\ (requests[r].pc = "save_answer" /\ answer_question_save(r))
            => LET a == requests[r].id
                   key == <<a, attempts[a].quiz_id, requests[r].question_id>> IN
               /\ key \in DOMAIN answer_cache'
               /\ answer_cache'[key].value = requests[r].answer_id
               /\ UNCHANGED <<attempts, result_archive>>
       /\ (requests[r].pc = "keys" /\ calculate_attempt_result_scan(r))
            => requests'[r].instances =
                 {answer_cache[k].value :
                    k \in {x \in DOMAIN answer_cache : x[1] = requests[r].id}}]_vars

\* an answer to question 1 of attempt 1 has passed its checks and is not yet
\* written, while the attempt has been scored and archived without it
C27_Witness ==
  \E r \in Slots :
    /\ requests[r].pc = "save_answer"
    /\ requests[r].id = 1
    /\ requests[r].question_id = 1
    /\ 1 \in scored
    /\ 1 \in DOMAIN result_archive
    /\ result_archive[1].data.questions[1].user_answer = None
    /\ \A s \in Slots : requests[s].op # "complete"

\* C30 (as claimed): of overlapping start requests by one user for one quiz
\* at most one inserts a row: every insert finds no Active attempt of the
\* pair and leaves the pair with at most AttemptQuota rows.
C30_ConcurrentStart ==
  [][\A r \in Slots :
       (requests[r].pc = "create" /\ start_quiz_attempt_create(r))
         => /\ ActiveOf(requests[r].user, requests[r].id) = {}
            /\ Cardinality(AttemptsOf(requests[r].user, requests[r].id))' <= AttemptQuota]_vars

============================================================================
